---- MODULE Spec2Model ----
(***************************************************************************)
(* Model of the Gemini Live relay (src/main.py): the GeminiSession object, *)
(* the connection supervisor websocket_endpoint (the inbound loop) and the *)
(* background task running GeminiSession.receive_responses (the outbound   *)
(* loop).  Both coroutines run on one asyncio event loop: a step of the    *)
(* model is the code a coroutine runs between two awaits.  An awaited I/O  *)
(* call is started by the step that reaches it and its outcome (return or  *)
(* exception) is chosen by the step that resumes after it.                 *)
(***************************************************************************)
EXTENDS Naturals, Sequences, FiniteSets, TLC

VARIABLES
    session,            \* GeminiSession.session: None or the upstream handle
    session_manager,    \* GeminiSession.session_manager: None or the context manager
    is_active,          \* GeminiSession.is_active
    pc,                 \* the await the supervisor (inbound loop) is suspended at
    rpc,                \* the await the receive_responses task is suspended at
    cancel_requested,   \* receive_task.cancel() has been called
    response,           \* the upstream event receive_responses is translating
    field,              \* position (in Fields) of the send_json being awaited
    fc_index,           \* index of the function call whose notification is awaited
    function_responses, \* handle_tool_call's local list
    emitted,            \* client messages sent for the current upstream event
    tool_responses,     \* grouped tool replies sent upstream for the current event
    tool_status,        \* handle_tool_call for the current event: none/running/ok/failed
    sup_sent,           \* client messages sent by connect() and the supervisor
    sent_frames,        \* number of audio frames sent upstream
    dropped,            \* number of audio chunks send_audio dropped with a warning
    audio_failed,       \* send_audio's upstream send has raised
    close_calls,        \* number of calls of GeminiSession.close
    released,           \* number of calls of session_manager.__aexit__
    was_active,         \* is_active has been True at some point
    malformed,          \* a malformed client message has been received
    stop_seen,          \* a stop message has been processed
    fail_cause,         \* why receive_responses took its except branch (or none)
    turn_interrupted,   \* an interrupted message has been sent in the open turn
    calls               \* number of method calls made by the session driver

vars == <<session, session_manager, is_active, pc, rpc, cancel_requested,
          response, field, fc_index, function_responses, emitted,
          tool_responses, tool_status, sup_sent, sent_frames, dropped,
          audio_failed,
          close_calls, released, was_active, malformed, stop_seen,
          fail_cause, turn_interrupted, calls>>

sessionVars == <<session, session_manager, is_active, was_active>>
taskVars == <<rpc, response, field, fc_index, function_responses, emitted,
              tool_responses, tool_status, fail_cause, turn_interrupted>>
closeVars == <<close_calls, released>>
clientVars == <<malformed, stop_seen>>
audioVars == <<sent_frames, dropped, audio_failed>>

None == "None"

\* ------------------------------------------------------------------ bounds
MaxFrames == 1     \* audio frames sent upstream in one run
MaxCalls == 2      \* function calls in one tool-call batch
MaxDriverCalls == 5 \* method calls the session driver makes

\* ------------------------------------------------- client messages (inbound)
\* A payload is a sequence of characters: "Q" stands for a character of the
\* base64 alphabet, "=" is the pad and "!" a character outside the alphabet.
\* The payloads a client sends: base64 with no, one and two pads; truncated
\* base64; characters outside the alphabet, alone and inside base64; data
\* after the padding; and the empty payload.
Payloads ==
    { <<>>,
      <<"Q", "Q", "Q", "Q">>,
      <<"Q", "Q", "Q", "=">>,
      <<"Q", "Q", "=", "=">>,
      <<"Q">>,
      <<"Q", "Q", "=">>,
      <<"!", "!", "!", "!">>,
      <<"Q", "!", "Q", "Q", "Q">>,
      <<"Q", "Q", "=", "=", "Q">> }

\* What websocket.receive_text() followed by json.loads can deliver.  An audio
\* chunk without "data" is the chunk with the empty payload: data.get("data")
\* is falsy for both.
ClientMessages ==
    {[kind |-> "disconnect"], [kind |-> "bad_json"], [kind |-> "not_object"]}
    \cup {[kind |-> "json", type |-> "audio_chunk", data |-> p] : p \in Payloads}
    \cup {[kind |-> "json", type |-> "end_of_turn"]}
    \cup {[kind |-> "json", type |-> "text_message", text |-> t] : t \in {"", "hi"}}
    \cup {[kind |-> "json", type |-> "stop"]}
    \cup {[kind |-> "json", type |-> "unknown"]}

\* base64.b64decode(s) with validate=False: characters outside the alphabet
\* are skipped, decoding stops at a complete pad sequence, and what is left of
\* an unfinished quad is an error (binascii.Error).  The result records whether
\* the call raised and the number of bytes decoded.
DecodeError == [error |-> TRUE, nbytes |-> 0]

Decoded(n) == [error |-> FALSE, nbytes |-> n]

RECURSIVE a2b_base64(_, _, _, _, _)
a2b_base64(s, pos, quad_pos, pads, nbytes) ==
    IF pos > Len(s)
    THEN IF quad_pos # 0 THEN DecodeError ELSE Decoded(nbytes)
    ELSE LET ch == s[pos] IN
         IF ch = "="
         THEN IF quad_pos >= 2 /\ quad_pos + pads + 1 >= 4
              THEN Decoded(nbytes)
              ELSE a2b_base64(s, pos + 1, quad_pos,
                              IF quad_pos >= 2 THEN pads + 1 ELSE pads, nbytes)
         ELSE IF ch = "!"
         THEN a2b_base64(s, pos + 1, quad_pos, pads, nbytes)
         ELSE IF quad_pos = 0
              THEN a2b_base64(s, pos + 1, 1, 0, nbytes)
              ELSE a2b_base64(s, pos + 1, (quad_pos + 1) % 4, 0, nbytes + 1)

b64decode(s) == a2b_base64(s, 1, 0, 0, 0)

\* ------------------------------------------------ upstream events (outbound)
\* The i-th function call of a batch: its id, the tool it names and its
\* arguments (opaque).
ToolNames == <<"adapt_tone", "summarize_response">>

FunctionCall(i) ==
    [id |-> i, name |-> ToolNames[(i % Len(ToolNames)) + 1], args |-> i]

\* The batch of n function calls.
Batch(n) == [i \in 1..n |-> FunctionCall(i)]

\* response.tool_call: None (present = FALSE), or an object with its list
\* function_calls
NoToolCall == [present |-> FALSE, function_calls |-> <<>>]

ToolCalls ==
    {NoToolCall}
    \cup {[present |-> TRUE, function_calls |-> Batch(n)] : n \in 0..MaxCalls}

\* response.server_content: None (present = FALSE), or an object with these
\* fields
NoServerContent ==
    [present |-> FALSE, input_transcription |-> FALSE,
     output_transcription |-> FALSE, model_turn |-> FALSE,
     turn_complete |-> FALSE, interrupted |-> FALSE]

ServerContents ==
    {NoServerContent}
    \cup [present : {TRUE}, input_transcription : BOOLEAN,
          output_transcription : BOOLEAN, model_turn : BOOLEAN,
          turn_complete : BOOLEAN, interrupted : BOOLEAN]

Events == [tool_call : ToolCalls, data : BOOLEAN, text : BOOLEAN,
           server_content : ServerContents]

\* The value of `response` while no event is being translated.
NoEvent == [tool_call |-> NoToolCall, data |-> FALSE, text |-> FALSE,
            server_content |-> NoServerContent]

\* Mutant: the server-content flags are tested before the transcripts.
Fields_FlagsFirst ==
    <<"tool_call", "data", "text", "turn_complete", "interrupted",
      "input_transcription", "output_transcription">>

\* The order in which receive_responses tests the fields of one event.
Fields == <<"tool_call", "data", "text", "input_transcription",
            "output_transcription", "turn_complete", "interrupted">>

\* Evaluating the test of a field raises AttributeError: lines 333 and 340
\* read an attribute of response.server_content without testing it first.
Raises(resp, f) ==
    /\ f \in {"input_transcription", "output_transcription"}
    /\ ~resp.server_content.present

\* The test of a field is true (on an event where it does not raise).
Populated(resp, f) ==
    CASE f = "tool_call" -> resp.tool_call.present
      [] f = "data" -> resp.data
      [] f = "text" -> resp.text
      [] f = "input_transcription" -> resp.server_content.input_transcription
      [] f = "output_transcription" -> resp.server_content.output_transcription
      [] f = "turn_complete" ->
            resp.server_content.present /\ resp.server_content.turn_complete
      [] f = "interrupted" ->
            resp.server_content.present /\ resp.server_content.interrupted

\* The client message a populated field is translated into.
FieldMessage(f) ==
    CASE f = "data" -> [type |-> "audio_response", data |-> "base64(data)"]
      [] f = "text" -> [type |-> "transcription", text |-> "response.text"]
      [] f = "input_transcription" ->
            [type |-> "transcription", text |-> "input_transcription.text"]
      [] f = "output_transcription" ->
            [type |-> "ai_transcription", text |-> "output_transcription.text"]
      [] f = "turn_complete" -> [type |-> "turn_complete"]
      [] f = "interrupted" -> [type |-> "interrupted"]

\* The notification and the function response built for one function call.
ToolCallMessage(fc) == [type |-> "tool_call", tool |-> fc.name, args |-> fc.args]

\* Mutant: every function response carries the id of the first call.
FunctionResponse_FirstId(fc) ==
    [id |-> 1, name |-> fc.name,
     response |-> [result |-> "ok", scheduling |-> "SILENT"]]

FunctionResponse(fc) ==
    [id |-> fc.id, name |-> fc.name,
     response |-> [result |-> "ok", scheduling |-> "SILENT"]]

\* From field number n on: 0 when the first thing to happen is a field test
\* that raises, the number of the first populated field otherwise, and
\* Len(Fields) + 1 when no field is left.
RECURSIVE Scan(_, _)
Scan(resp, n) ==
    IF n > Len(Fields) THEN Len(Fields) + 1
    ELSE IF Raises(resp, Fields[n]) THEN 0
    ELSE IF Populated(resp, Fields[n]) THEN n
    ELSE Scan(resp, n + 1)

\* ------------------------------------------------------------ GeminiSession
\* Mutant: the precondition check forgets the is_active flag.
SendAudioInactive_NoActiveCheck == session = None

\* send_audio's precondition check: the chunk is dropped.
SendAudioInactive == session = None \/ ~is_active

\* Mutant: send_audio logs a failed send and leaves is_active alone.
ActiveAfterSendAudio_Logged(ok) == is_active

\* Mutant: send_audio stores the outcome of the send in is_active.
ActiveAfterSendAudio_Assign(ok) == ok

\* is_active after the awaited send_realtime_input of send_audio returned
\* (ok) or raised.
ActiveAfterSendAudio(ok) == IF ok THEN is_active ELSE FALSE

\* Mutant: a failed end-of-turn send marks the session inactive, as a failed
\* audio send does.
ActiveAfterEndOfTurn_LikeAudio(ok) == IF ok THEN is_active ELSE FALSE

\* is_active after the awaited send_realtime_input(end_of_turn=True) returned
\* or raised: the supervisor logs the exception and changes nothing.
ActiveAfterEndOfTurn(ok) == is_active

\* close() releases the upstream handle when it holds a session manager.
ReleasesHandle == session_manager # None

\* GeminiSession.close, up to its await of session_manager.__aexit__.
close ==
    /\ is_active' = FALSE
    /\ close_calls' = close_calls + 1
    /\ released' = IF ReleasesHandle THEN released + 1 ELSE released
    /\ UNCHANGED <<session, session_manager, was_active>>

\* ------------------------------------------------- websocket_endpoint (4.5)
Init ==
    /\ session = None
    /\ session_manager = None
    /\ is_active = FALSE
    /\ pc = "connect"
    /\ rpc = "none"
    /\ cancel_requested = FALSE
    /\ response = NoEvent
    /\ field = 0
    /\ fc_index = 0
    /\ function_responses = <<>>
    /\ emitted = <<>>
    /\ tool_responses = <<>>
    /\ tool_status = "none"
    /\ sup_sent = <<>>
    /\ sent_frames = 0
    /\ dropped = 0
    /\ audio_failed = FALSE
    /\ close_calls = 0
    /\ released = 0
    /\ was_active = FALSE
    /\ malformed = FALSE
    /\ stop_seen = FALSE
    /\ fail_cause = "none"
    /\ turn_interrupted = FALSE
    /\ calls = 0

\* The task is between two events, or has ended: the locals of the loop body
\* and the record of the current event are empty.
NoCurrentEvent ==
    /\ response' = NoEvent
    /\ field' = 0
    /\ fc_index' = 0
    /\ function_responses' = <<>>
    /\ emitted' = <<>>
    /\ tool_responses' = <<>>
    /\ tool_status' = "none"

\* The receive task has finished (returned, or ended by its cancellation).
TaskTerminated == rpc \in {"done", "cancelled"}

\* The task is suspended at an await (or not yet started): cancel() ends it.
TaskRunning == rpc \in {"created", "next", "tool_notify", "tool_respond", "send"}

\* Mutant: the supervisor awaits the receive task without cancelling it.
ExitLoop_NoCancel ==
    /\ pc' = "join"
    /\ UNCHANGED <<cancel_requested, taskVars>>

\* After the inbound loop: receive_task.cancel(), then await receive_task.
\* CancelledError is thrown into the task at the await it is suspended at,
\* before it runs any more of its code, and no except clause of the task
\* catches it (it is not an Exception): the task ends cancelled.  cancel() on
\* a task that has returned does nothing.
ExitLoop ==
    /\ cancel_requested' = TRUE
    /\ pc' = "join"
    /\ IF TaskRunning
       THEN rpc' = "cancelled" /\ NoCurrentEvent /\ turn_interrupted' = FALSE
       ELSE UNCHANGED <<rpc, response, field, fc_index, function_responses,
                        emitted, tool_responses, tool_status, turn_interrupted>>
    /\ UNCHANGED fail_cause

\* The test of `while session.is_active` with the value is_active now has.
NextIteration(active) ==
    IF active
    THEN pc' = "recv" /\ UNCHANGED <<cancel_requested, taskVars>>
    ELSE ExitLoop

\* The finally clause: session.close().
Finally ==
    /\ close
    /\ pc' = IF ReleasesHandle THEN "aexit" ELSE "done"

\* Mutant: a failure of __aenter__ goes to the finally clause without an
\* error message.
Connect_NoErrorMessage ==
    /\ pc = "connect"
    /\ \E ok \in BOOLEAN :
          IF ok
          THEN /\ session' = "session"
               /\ session_manager' = "session_manager"
               /\ is_active' = TRUE
               /\ was_active' = TRUE
               /\ sup_sent' = Append(sup_sent, "connected")
               /\ pc' = "connected_send"
          ELSE /\ is_active' = FALSE
               /\ pc' = "error_send"
               /\ UNCHANGED <<session, session_manager, was_active, sup_sent>>
    /\ UNCHANGED <<taskVars, cancel_requested, audioVars, closeVars,
                   clientVars, calls>>

\* session_manager.__aenter__() returns the session (ok) or raises.
Connect ==
    /\ pc = "connect"
    /\ \E ok \in BOOLEAN :
          IF ok
          THEN /\ session' = "session"
               /\ session_manager' = "session_manager"
               /\ is_active' = TRUE
               /\ was_active' = TRUE
               /\ sup_sent' = Append(sup_sent, "connected")
               /\ pc' = "connected_send"
          ELSE /\ is_active' = FALSE
               /\ sup_sent' = Append(sup_sent, "error")
               /\ pc' = "error_send"
               /\ UNCHANGED <<session, session_manager, was_active>>
    /\ UNCHANGED <<taskVars, cancel_requested, audioVars, closeVars,
                   clientVars, calls>>

\* The send of the connected message returns: connect() returns and the
\* supervisor creates the receive task and enters the inbound loop; or it
\* raises: connect() marks the session inactive and re-raises.
ConnectedSent ==
    /\ pc = "connected_send"
    /\ \E ok \in BOOLEAN :
          IF ok
          THEN /\ rpc' = "created"
               /\ pc' = "recv"
               /\ UNCHANGED <<is_active, sup_sent>>
          ELSE /\ is_active' = FALSE
               /\ sup_sent' = Append(sup_sent, "error")
               /\ pc' = "error_send"
               /\ UNCHANGED rpc
    /\ UNCHANGED <<session, session_manager, was_active, cancel_requested,
                   response, field, fc_index, function_responses, emitted,
                   tool_responses, tool_status, fail_cause, turn_interrupted,
                   audioVars, closeVars, clientVars, calls>>

\* The send of the error message returned or raised: the finally clause runs.
ErrorSent ==
    /\ pc = "error_send"
    /\ Finally
    /\ UNCHANGED <<taskVars, cancel_requested, sup_sent, audioVars,
                   clientVars, calls>>

\* A payload that is base64 (RFC 4648): alphabet characters in groups of
\* four, the last group ending in at most two pads.  Used only to record in
\* `malformed` that a payload which is not base64 has been received.
ValidBase64(s) ==
    /\ Len(s) % 4 = 0
    /\ \A i \in 1..Len(s) :
          \/ s[i] = "Q"
          \/ /\ s[i] = "="
             /\ i > Len(s) - 2
             /\ \A j \in i..Len(s) : s[j] = "="

\* websocket.receive_text() delivers m (or raises WebSocketDisconnect) and
\* the loop body runs to its next await.
Recv(m) ==
    /\ pc = "recv"
    /\ IF m.kind # "json"
       THEN \* WebSocketDisconnect, JSONDecodeError, AttributeError: break
            /\ ExitLoop
            /\ malformed' = (malformed \/ m.kind = "bad_json")
            /\ UNCHANGED <<is_active, audioVars, stop_seen>>
       ELSE CASE m.type = "audio_chunk" ->
                   /\ malformed' = (malformed \/ ~ValidBase64(m.data))
                   /\ UNCHANGED stop_seen
                   /\ IF m.data = <<>>
                      THEN \* `if audio_base64:` is false
                           /\ NextIteration(is_active)
                           /\ UNCHANGED <<is_active, audioVars>>
                      ELSE IF SendAudioInactive
                      THEN /\ dropped' = dropped + 1
                           /\ NextIteration(is_active)
                           /\ UNCHANGED <<is_active, sent_frames, audio_failed>>
                      ELSE IF b64decode(m.data).error
                      THEN /\ is_active' = FALSE
                           /\ NextIteration(FALSE)
                           /\ UNCHANGED audioVars
                      ELSE /\ sent_frames < MaxFrames
                           /\ sent_frames' = sent_frames + 1
                           /\ pc' = "send_audio"
                           /\ UNCHANGED <<is_active, dropped, audio_failed,
                                          cancel_requested,
                                          taskVars>>
              [] m.type = "end_of_turn" ->
                   /\ IF session # None
                      THEN pc' = "end_of_turn" /\ UNCHANGED <<cancel_requested, taskVars>>
                      ELSE NextIteration(is_active)
                   /\ UNCHANGED <<is_active, audioVars, clientVars>>
              [] m.type = "text_message" ->
                   /\ IF m.text # ""
                      THEN pc' = "text" /\ UNCHANGED <<cancel_requested, taskVars>>
                      ELSE NextIteration(is_active)
                   /\ UNCHANGED <<is_active, audioVars, clientVars>>
              [] m.type = "stop" ->
                   /\ ExitLoop
                   /\ stop_seen' = TRUE
                   /\ UNCHANGED <<is_active, audioVars, malformed>>
              [] OTHER ->
                   /\ NextIteration(is_active)
                   /\ UNCHANGED <<is_active, audioVars, clientVars>>
    /\ UNCHANGED <<session, session_manager, was_active, sup_sent,
                   closeVars, calls>>

Receive == \E m \in ClientMessages : Recv(m)

\* send_audio's send_realtime_input returned or raised; send_audio returns.
SendAudioDone ==
    /\ pc = "send_audio"
    /\ \E ok \in BOOLEAN :
          /\ is_active' = ActiveAfterSendAudio(ok)
          /\ audio_failed' = (audio_failed \/ ~ok)
          /\ NextIteration(ActiveAfterSendAudio(ok))
    /\ UNCHANGED <<session, session_manager, was_active, sup_sent,
                   sent_frames, dropped, closeVars, clientVars, calls>>

\* send_realtime_input(end_of_turn=True) returned or raised (logged).
EndOfTurnDone ==
    /\ pc = "end_of_turn"
    /\ \E ok \in BOOLEAN :
          /\ is_active' = ActiveAfterEndOfTurn(ok)
          /\ NextIteration(ActiveAfterEndOfTurn(ok))
    /\ UNCHANGED <<session, session_manager, was_active, sup_sent,
                   audioVars, closeVars, clientVars, calls>>

\* session.send(input=text, end_of_turn=True) returned, or raised: break.
TextDone ==
    /\ pc = "text"
    /\ \E ok \in BOOLEAN :
          IF ok THEN NextIteration(is_active) ELSE ExitLoop
    /\ UNCHANGED <<sessionVars, sup_sent, audioVars, closeVars,
                   clientVars, calls>>

\* await receive_task returns (or raises CancelledError, which is passed):
\* the finally clause runs.
Join ==
    /\ pc = "join"
    /\ TaskTerminated
    /\ Finally
    /\ UNCHANGED <<taskVars, cancel_requested, sup_sent, audioVars,
                   clientVars, calls>>

\* session_manager.__aexit__ returned or raised (logged): close() returns.
Released ==
    /\ pc = "aexit"
    /\ pc' = "done"
    /\ UNCHANGED <<sessionVars, taskVars, cancel_requested, sup_sent,
                   audioVars, closeVars, clientVars, calls>>

\* ------------------------------------------- receive_responses (4.3, 4.4)
\* Mutant: the exception is logged inside the loop, which goes on with the
\* next event.
ReceiveFails_LogAndContinue(cause) ==
    /\ fail_cause' = cause
    /\ rpc' = "next"
    /\ NoCurrentEvent
    /\ UNCHANGED <<is_active, turn_interrupted>>

\* The except clause of receive_responses: the session is marked inactive and
\* the task returns.
ReceiveFails(cause) ==
    /\ is_active' = FALSE
    /\ fail_cause' = cause
    /\ turn_interrupted' = FALSE
    /\ rpc' = "done"
    /\ response' = NoEvent
    /\ field' = 0
    /\ fc_index' = 0
    /\ function_responses' = <<>>
    /\ emitted' = <<>>
    /\ tool_responses' = <<>>
    /\ tool_status' = "none"

\* handle_tool_call from its start to its first await: the notification of
\* the first function call, or the grouped reply of an empty batch.
StartToolCall(resp, em, trs) ==
    LET fcs == resp.tool_call.function_calls IN
    /\ tool_status' = "running"
    /\ function_responses' = <<>>
    /\ field' = 0
    /\ IF Len(fcs) = 0
       THEN /\ tool_responses' = Append(trs, <<>>)
            /\ emitted' = em
            /\ fc_index' = 0
            /\ rpc' = "tool_respond"
       ELSE /\ emitted' = Append(em, ToolCallMessage(fcs[1]))
            /\ tool_responses' = trs
            /\ fc_index' = 1
            /\ rpc' = "tool_notify"
    /\ UNCHANGED <<is_active, fail_cause, turn_interrupted>>

\* The body of the event loop from the test of field n to the next await,
\* with em the messages sent so far for the event, trs the tool replies and
\* ts the outcome of its tool handling.
Translate(resp, n, em, trs, ts) ==
    LET s == Scan(resp, n) IN
    IF s = 0
       THEN ReceiveFails("AttributeError")
       ELSE IF s = 1
       THEN response' = resp /\ StartToolCall(resp, em, trs)
       ELSE IF s > Len(Fields)
       THEN \* the event is done: the next event of the turn is awaited
            /\ rpc' = "next"
            /\ NoCurrentEvent
            /\ UNCHANGED <<is_active, fail_cause, turn_interrupted>>
       ELSE /\ response' = resp
            /\ rpc' = "send"
            /\ field' = s
            /\ emitted' = Append(em, FieldMessage(Fields[s]))
            /\ tool_responses' = trs
            /\ tool_status' = ts
            /\ fc_index' = 0
            /\ function_responses' = <<>>
            /\ turn_interrupted' = (turn_interrupted \/ Fields[s] = "interrupted")
            /\ UNCHANGED <<is_active, fail_cause>>

supervisorVars == <<pc, cancel_requested, sup_sent, audioVars, closeVars,
                    clientVars, calls>>

\* The task is scheduled for the first time: `while self.is_active`, then the
\* first turn is opened and its first event awaited.
TaskStart ==
    /\ rpc = "created"
    /\ rpc' = IF is_active THEN "next" ELSE "done"
    /\ UNCHANGED <<sessionVars, response, field, fc_index, function_responses,
                   emitted, tool_responses, tool_status, fail_cause, turn_interrupted,
                   supervisorVars>>

\* The turn delivers event e: `if not self.is_active: break` leaves both
\* loops; otherwise the event is translated up to its first await.
NextEvent(e) ==
    /\ rpc = "next"
    /\ IF is_active
       THEN Translate(e, 1, <<>>, <<>>, "none")
       ELSE /\ rpc' = "done"
            /\ turn_interrupted' = FALSE
            /\ UNCHANGED <<is_active, response, field, fc_index,
                           function_responses, emitted, tool_responses,
                           tool_status, fail_cause>>
    /\ UNCHANGED <<session, session_manager, was_active, supervisorVars>>

ReceiveEvent == \E e \in Events : NextEvent(e)

\* The turn is exhausted: `while self.is_active` opens the next turn (in which
\* no interrupted message has been sent yet), or the task returns.
TurnEnds ==
    /\ rpc = "next"
    /\ rpc' = IF is_active THEN "next" ELSE "done"
    /\ turn_interrupted' = FALSE
    /\ UNCHANGED <<sessionVars, response, field, fc_index, function_responses,
                   emitted, tool_responses, tool_status, fail_cause,
                   supervisorVars>>

\* Opening or reading the turn's receive-stream raises.
ReceiveRaises ==
    /\ rpc = "next"
    /\ ReceiveFails("receive")
    /\ UNCHANGED <<session, session_manager, was_active, supervisorVars>>

\* The send of a tool_call notification returned: the function response is
\* appended and the next notification, or the grouped reply, is sent.  Or it
\* raised: handle_tool_call logs and returns.
ToolNotified ==
    /\ rpc = "tool_notify"
    /\ \E ok \in BOOLEAN :
          LET fcs == response.tool_call.function_calls
              frs == Append(function_responses, FunctionResponse(fcs[fc_index]))
          IN  IF ~ok
              THEN Translate(response, 2, emitted, tool_responses, "failed")
              ELSE /\ function_responses' = frs
                   /\ IF fc_index < Len(fcs)
                      THEN /\ emitted' = Append(emitted, ToolCallMessage(fcs[fc_index + 1]))
                           /\ fc_index' = fc_index + 1
                           /\ UNCHANGED <<rpc, tool_responses>>
                      ELSE /\ tool_responses' = Append(tool_responses, frs)
                           /\ rpc' = "tool_respond"
                           /\ fc_index' = 0
                           /\ UNCHANGED emitted
                   /\ UNCHANGED <<is_active, response, field, tool_status,
                                  fail_cause, turn_interrupted>>
    /\ UNCHANGED <<session, session_manager, was_active, supervisorVars>>

\* send_tool_response returned, or raised (logged): handle_tool_call returns
\* and the translation goes on with the next field.
ToolResponded ==
    /\ rpc = "tool_respond"
    /\ \E ok \in BOOLEAN :
          Translate(response, 2, emitted, tool_responses,
                    IF ok THEN "ok" ELSE "failed")
    /\ UNCHANGED <<session, session_manager, was_active, supervisorVars>>

\* The send of a field's client message returned: the next field is tested.
\* Or it raised: the except clause of receive_responses.
FieldSent ==
    /\ rpc = "send"
    /\ \E ok \in BOOLEAN :
          IF ok
          THEN Translate(response, field + 1, emitted, tool_responses, tool_status)
          ELSE ReceiveFails("send_json")
    /\ UNCHANGED <<session, session_manager, was_active, supervisorVars>>

Supervisor ==
    \/ Connect
    \/ ConnectedSent
    \/ ErrorSent
    \/ SendAudioDone
    \/ EndOfTurnDone
    \/ TextDone
    \/ Join
    \/ Released

Task ==
    \/ TaskStart
    \/ TurnEnds
    \/ ToolNotified
    \/ ToolResponded
    \/ FieldSent

Next ==
    \/ Supervisor
    \/ Receive
    \/ Task
    \/ ReceiveEvent
    \/ ReceiveRaises

Spec == Init /\ [][Next]_vars

\* Fairness: the event loop runs a coroutine whose awaited call has completed.
\* The arrival of a client message (Receive) and of an upstream event
\* (ReceiveEvent, ReceiveRaises) is up to the peers and is not assumed.
FairSpec == Spec /\ WF_vars(Supervisor) /\ WF_vars(Task)

\* ---------------------------------------------- the session object by itself
\* A driver that owns one GeminiSession and calls its methods one after the
\* other, each call awaited to its end: connect() at most once, send_audio()
\* and close() in any order and any number of times.
InitSession ==
    /\ session = None
    /\ session_manager = None
    /\ is_active = FALSE
    /\ pc = "fresh"
    /\ rpc = "none"
    /\ cancel_requested = FALSE
    /\ response = NoEvent
    /\ field = 0
    /\ fc_index = 0
    /\ function_responses = <<>>
    /\ emitted = <<>>
    /\ tool_responses = <<>>
    /\ tool_status = "none"
    /\ sup_sent = <<>>
    /\ sent_frames = 0
    /\ dropped = 0
    /\ audio_failed = FALSE
    /\ close_calls = 0
    /\ released = 0
    /\ was_active = FALSE
    /\ malformed = FALSE
    /\ stop_seen = FALSE
    /\ fail_cause = "none"
    /\ turn_interrupted = FALSE
    /\ calls = 0

\* connect(): __aenter__ returns (opened) or raises, and then the send of the
\* connected message returns (sent) or raises.
CallConnect ==
    /\ pc = "fresh"
    /\ calls < MaxDriverCalls
    /\ calls' = calls + 1
    /\ pc' = "connect_called"
    /\ \E opened, sent \in BOOLEAN :
          IF opened
          THEN /\ session' = "session"
               /\ session_manager' = "session_manager"
               /\ is_active' = sent
               /\ was_active' = TRUE
               /\ sup_sent' = Append(sup_sent, "connected")
          ELSE /\ is_active' = FALSE
               /\ UNCHANGED <<session, session_manager, was_active, sup_sent>>
    /\ UNCHANGED <<taskVars, cancel_requested, audioVars, closeVars,
                   clientVars>>

\* send_audio(payload), with its upstream send returning (ok) or raising.
CallSendAudio ==
    /\ calls < MaxDriverCalls
    /\ calls' = calls + 1
    /\ \E payload \in Payloads, ok \in BOOLEAN :
          IF SendAudioInactive
          THEN /\ dropped' = dropped + 1
               /\ UNCHANGED <<is_active, sent_frames, audio_failed>>
          ELSE IF b64decode(payload).error
          THEN /\ is_active' = FALSE
               /\ UNCHANGED audioVars
          ELSE /\ sent_frames' = sent_frames + 1
               /\ is_active' = ActiveAfterSendAudio(ok)
               /\ audio_failed' = (audio_failed \/ ~ok)
               /\ UNCHANGED dropped
    /\ UNCHANGED <<session, session_manager, was_active, pc, taskVars,
                   cancel_requested, sup_sent, closeVars, clientVars>>

\* close(), with __aexit__ returning or raising (logged).
CallClose ==
    /\ calls < MaxDriverCalls
    /\ calls' = calls + 1
    /\ close
    /\ UNCHANGED <<pc, taskVars, cancel_requested, sup_sent, audioVars,
                   clientVars>>

NextSession ==
    \/ CallConnect
    \/ CallSendAudio
    \/ CallClose

SpecSession == InitSession /\ [][NextSession]_vars

\* ================================================================== claims
LoopExited == pc \in {"join", "aexit", "done"}

\* C1: close() is idempotent: on a session whose upstream handle was
\* acquired, two calls of close() release the handle exactly once (the second
\* call performs no release).
C1_CloseIdempotent ==
    (session_manager # None /\ close_calls >= 2) => released = 1

\* C2: in every run of the supervisor close() is invoked at most once, and
\* exactly once when the supervisor is done; once the inbound loop has exited
\* the receive task has been cancelled, and the handle is released only after
\* the task has terminated; and once the loops have ended close() does run.
C2_Safety ==
    /\ close_calls <= 1
    /\ released <= close_calls
    /\ pc \in {"aexit", "done"} <=> close_calls = 1
    /\ (LoopExited /\ rpc # "none") => cancel_requested
    /\ released >= 1 => rpc \in {"none", "done", "cancelled"}

C2_CloseOnceAfterTask ==
    /\ []C2_Safety
    /\ (pc \in {"join", "error_send"}) ~> (pc = "done" /\ close_calls = 1)

C2_Witness ==
    /\ pc = "done"
    /\ rpc = "cancelled"
    /\ close_calls = 1
    /\ released = 1

\* C3: after an upstream receive-loop failure the session eventually ends:
\* close() runs and the upstream handle is released, whatever the client does.
C3_SessionEndsAfterReceiveFailure ==
    (fail_cause = "receive") ~> (close_calls = 1 /\ released = 1)

\* An event with no server_content that carries only a tool call or only audio.
OnlyToolCallOrAudio(resp) ==
    /\ ~resp.server_content.present
    /\ ~resp.text
    /\ resp.tool_call.present # resp.data

\* C4: an event that carries only a tool call, or only audio data, and no
\* server content is translated, the session stays active and the outbound
\* loop goes on to the next event (unless a write to the client fails).
C4_FieldsTestedIndependently ==
    [][ ( /\ OnlyToolCallOrAudio(response)
          /\ is_active
          /\ rpc' \in {"next", "done"}
          /\ fail_cause' # "send_json" )
        => (rpc' = "next" /\ is_active') ]_vars

\* C5: while the session is inactive (never connected, marked inactive by an
\* error, or closed) no call forwards audio: the number of frames sent
\* upstream does not change.
C5_NoAudioWhileInactive ==
    [][ ~is_active => sent_frames' = sent_frames ]_vars

C5_Witness ==
    /\ ~is_active
    /\ was_active
    /\ sent_frames = 1
    /\ close_calls = 1
    /\ dropped = 2

\* C6: once is_active has been true and has become false, no step sets it
\* back to true.
C6_ActiveMonotonic ==
    [][ (was_active /\ ~is_active) => ~is_active' ]_vars

C6_Witness ==
    /\ was_active
    /\ ~is_active
    /\ pc = "end_of_turn"
    /\ fail_cause = "receive"

\* The client messages of the populated fields of resp among the first k
\* fields, in the order tool_call, audio_response, transcription (text),
\* transcription (input transcript), ai_transcription, turn_complete,
\* interrupted.
ExpectedMessages(resp, k) ==
    LET fcs == resp.tool_call.function_calls
        sc == resp.server_content
        One(cond, msg) == IF cond THEN <<msg>> ELSE <<>>
    IN  (IF resp.tool_call.present
         THEN [i \in 1..Len(fcs) |->
                 [type |-> "tool_call", tool |-> fcs[i].name, args |-> fcs[i].args]]
         ELSE <<>>)
        \o One(k >= 2 /\ resp.data,
               [type |-> "audio_response", data |-> "base64(data)"])
        \o One(k >= 3 /\ resp.text,
               [type |-> "transcription", text |-> "response.text"])
        \o One(k >= 4 /\ sc.present /\ sc.input_transcription,
               [type |-> "transcription", text |-> "input_transcription.text"])
        \o One(k >= 5 /\ sc.present /\ sc.output_transcription,
               [type |-> "ai_transcription", text |-> "output_transcription.text"])
        \o One(k >= 6 /\ sc.present /\ sc.turn_complete, [type |-> "turn_complete"])
        \o One(k >= 7 /\ sc.present /\ sc.interrupted, [type |-> "interrupted"])

\* C7: when the message of a field has been sent, the messages sent for the
\* event are those of its populated fields up to that field, one each and in
\* the fixed order, and when the translation of the event ends they are those
\* of all its populated fields (the tool handling not having failed).
C7_FieldOrder ==
    /\ []( (rpc = "send" /\ tool_status # "failed")
              => emitted = ExpectedMessages(response, field) )
    /\ [][ (rpc = "send" /\ tool_status # "failed" /\ rpc' = "next")
              => emitted = ExpectedMessages(response, Len(Fields)) ]_vars

\* An event with only output_transcription and turn_complete populated has
\* produced exactly ai_transcription and then turn_complete.
C7_Witness ==
    /\ rpc = "send"
    /\ field = 6
    /\ ~response.tool_call.present /\ ~response.data /\ ~response.text
    /\ response.server_content =
          [present |-> TRUE, input_transcription |-> FALSE,
           output_transcription |-> TRUE, model_turn |-> FALSE,
           turn_complete |-> TRUE, interrupted |-> FALSE]
    /\ emitted = << [type |-> "ai_transcription", text |-> "output_transcription.text"],
                    [type |-> "turn_complete"] >>

\* C8: once a stop message has been processed the inbound loop has exited and
\* the receive task has been cancelled and has ended; no client message is
\* sent from then on; and close() runs.
C8_StopEndsSession ==
    /\ [](stop_seen => (LoopExited /\ cancel_requested
                        /\ rpc \in {"done", "cancelled"}))
    /\ [][ stop_seen => (emitted' = emitted /\ sup_sent' = sup_sent) ]_vars
    /\ stop_seen ~> (close_calls = 1 /\ pc = "done")

C8_Witness ==
    /\ stop_seen
    /\ pc = "done"
    /\ close_calls = 1
    /\ rpc = "cancelled"
    /\ was_active

\* C9: a malformed client message (undecodable JSON, or an audio chunk whose
\* payload is not base64) terminates the inbound loop: no later message is
\* received or forwarded.
C9_MalformedEndsInboundLoop ==
    malformed => LoopExited

\* C10: for a batch of N function calls handled without failure the client
\* gets N tool_call notifications in request order and the upstream gets
\* exactly one grouped response, with N entries whose ids and names are those
\* of the requests, sent after the last notification.
C10_ToolBatch ==
    LET fcs == response.tool_call.function_calls
        N == Len(fcs)
    IN  /\ Len(tool_responses) <= 1
        /\ tool_status = "ok" => Len(tool_responses) = 1
        /\ tool_responses # <<>> =>
              /\ response.tool_call.present
              /\ Len(tool_responses[1]) = N
              /\ \A i \in 1..N :
                    /\ tool_responses[1][i].id = fcs[i].id
                    /\ tool_responses[1][i].name = fcs[i].name
              /\ Len(emitted) >= N
              /\ \A i \in 1..N :
                    /\ emitted[i].type = "tool_call"
                    /\ emitted[i].tool = fcs[i].name
              /\ \A i \in (N + 1)..Len(emitted) : emitted[i].type # "tool_call"

C10_Witness ==
    /\ tool_status = "ok"
    /\ Len(response.tool_call.function_calls) = 2
    /\ Len(tool_responses) = 1
    /\ Len(tool_responses[1]) = 2
    /\ tool_responses[1][2].id = 2

\* C11: on every connection attempt a connected message (the upstream session
\* opened) or an error message (connect() failed) is sent to the client, and
\* it is the first message; after a connect failure no receive task exists
\* and is_active is false (it has never been true when the upstream session
\* did not open); and close() runs.
C11_ConnectedOrError ==
    /\ [](pc # "connect" =>
             /\ sup_sent # <<>>
             /\ sup_sent[1] = IF session # None THEN "connected" ELSE "error")
    /\ []((\E i \in 1..Len(sup_sent) : sup_sent[i] = "error") =>
             /\ rpc = "none"
             /\ ~is_active
             /\ (session = None => ~was_active))
    /\ (pc = "connect") ~> (sup_sent # <<>>)
    /\ (pc = "error_send") ~> (pc = "done" /\ close_calls = 1)

C11_Witness ==
    /\ pc = "done"
    /\ sup_sent = <<"error">>
    /\ session = None
    /\ rpc = "none"
    /\ close_calls = 1

\* C12: after a fatal condition in an established session no client message
\* is sent.  A decode failure of the inbound loop (undecodable JSON, a base64
\* error) leaves the loop exited, an upstream receive-loop failure leaves
\* fail_cause set: from either no step sends a message, on behalf of the
\* task (emitted) or of the supervisor (sup_sent).
C12_SilentAfterFatal ==
    [][ (was_active /\ (fail_cause # "none" \/ LoopExited))
           => (emitted' = emitted /\ sup_sent' = sup_sent) ]_vars

\* Both fatal conditions on one connection: the receive loop failed, then an
\* undecodable client message ended the inbound loop.
C12_Witness ==
    /\ fail_cause = "receive"
    /\ malformed
    /\ pc = "done"
    /\ sup_sent = <<"connected">>

\* C13: after an interrupted message has been sent in a turn the session
\* stays active and every later event of the same turn is still translated:
\* when the translation of such an event ends (no write to the client having
\* failed), the task awaits the next event of the same turn and the session
\* is still active.
C13_InterruptedDoesNotTruncate ==
    [][ ( /\ turn_interrupted
          /\ is_active
          /\ rpc \in {"send", "tool_notify", "tool_respond"}
          /\ rpc' \in {"next", "done"}
          /\ fail_cause' # "send_json" )
        => (rpc' = "next" /\ turn_interrupted' /\ is_active') ]_vars

\* C14: once is_active has become false through an upstream receive-loop
\* failure while the inbound loop waits for a message, no client message the
\* loop receives results in an upstream send: the loop does not go on to the
\* await of send_realtime_input (audio or end-of-turn) or of session.send.
C14_NoForwardWhileInactive ==
    [][ (fail_cause = "receive" /\ ~is_active /\ pc = "recv")
           => pc' \notin {"send_audio", "end_of_turn", "text"} ]_vars

\* C15: a failure in the handling of a tool-call batch (a notification to the
\* client fails, or the grouped reply fails and another field of the event is
\* then sent) is confined to handle_tool_call: when it returns is_active is
\* unchanged and the outbound loop goes on, with the next populated field of
\* the event or with the next event.
C15_ToolFailureConfined ==
    [][ ( \/ /\ rpc = "tool_notify"
             /\ rpc' \notin {"tool_notify", "tool_respond", "cancelled"}
          \/ /\ rpc = "tool_respond"
             /\ tool_status' = "failed" )
        => (is_active' = is_active /\ rpc' \in {"send", "next"}) ]_vars

\* C16: once send_audio's upstream send has raised, is_active is false and
\* the inbound loop has exited (the step that resumes after the failed send
\* leaves the loop: no other client message is received), and no audio frame
\* is sent upstream from then on.
C16_AudioSendFailureEndsSession ==
    /\ [](audio_failed => (~is_active /\ LoopExited))
    /\ [][ audio_failed => sent_frames' = sent_frames ]_vars

C16_Witness ==
    /\ audio_failed
    /\ sent_frames = 1
    /\ pc = "done"
    /\ rpc = "cancelled"

\* C17: the step that resumes after the end-of-turn send, whether the send
\* returned or raised, changes no session state: is_active keeps its value;
\* if it is true the inbound loop goes back to receive the next client
\* message and the receive task is left as it is.
C17_EndOfTurnFailureChangesNothing ==
    [][ (pc = "end_of_turn" /\ pc' # "end_of_turn")
           => /\ is_active' = is_active
              /\ UNCHANGED <<session, session_manager>>
              /\ is_active => (pc' = "recv" /\ UNCHANGED taskVars) ]_vars

\* The end-of-turn send is awaited, the session active, the receive task in
\* the middle of an event: the step that resumes after the send, returned or
\* raised, is the one the claim is about.
C17_Witness ==
    /\ pc = "end_of_turn"
    /\ is_active
    /\ rpc = "send"
    /\ sent_frames = 1

\* C18: once an exception has reached the except clause of receive_responses
\* (from the receive-stream, from a write to the client outside the tool
\* handling, or from the translation itself), is_active is false and the task
\* has returned; from then on the task does nothing: no event is translated
\* and no turn is opened.
C18_ReceiveFailureStopsLoop ==
    /\ [](fail_cause # "none" => (~is_active /\ rpc = "done"))
    /\ [][ fail_cause # "none" => UNCHANGED taskVars ]_vars

C18_Witness ==
    /\ fail_cause = "send_json"
    /\ was_active
    /\ pc = "done"
    /\ close_calls = 1

\* C19: the upstream handle is released only after the inbound loop has
\* exited, and from the exit of the loop on, hence after close() has released
\* the handle, no operation on the handle is started: the supervisor does not
\* reach the await of an audio, end-of-turn or text send, no audio frame and
\* no tool reply is sent, and the receive task does not move (it opens no
\* turn and reads no event).
C19_NoUpstreamUseAfterRelease ==
    /\ [](released >= 1 => pc \in {"aexit", "done"})
    /\ [][ LoopExited =>
              /\ pc' \notin {"send_audio", "end_of_turn", "text"}
              /\ UNCHANGED <<rpc, tool_responses, sent_frames>> ]_vars

\* The handle has been released after a run in which audio was sent, the
\* receive loop failed and the client then disconnected.
C19_Witness ==
    /\ released = 1
    /\ pc = "aexit"
    /\ rpc = "done"
    /\ fail_cause = "receive"
    /\ sent_frames = 1
    /\ ~stop_seen

====
